---- MODULE Spec2Model ----
(***************************************************************************)
(* Model of the BPoW simulator core: the hash model (utils/hash_utils.py), *)
(* the chain store (sim/core.py Blockchain) and the acceptance pipeline of *)
(* the orchestrator (sim_api.py).                                          *)
(*                                                                         *)
(* A Python Block object is a record of its immutable fields plus an       *)
(* object tag `oid` that tells apart two objects with equal fields; the    *)
(* one mutable field, Block.accepted, is kept per object in `accepted`.    *)
(* prev_hash is kept as the string str(prev_hash) the code turns it into   *)
(* (a sequence of decimal digits); the genesis sentinel is "0" * 64.       *)
(***************************************************************************)
EXTENDS Integers, Sequences, FiniteSets, TLC

\* ---------------------------------------------------------------- bounds
MaxK == 1
MaxResubmit == 1

\* ------------------------------------------------------ program constants
HASH_MOD == 10000
FUTURE_WINDOW == 7200
DEFAULT_DIFFICULTY == 4
BASE_THRESHOLD == 5000
GenesisTime == 10

VARIABLES
  blocks,      \* Blockchain._blocks: str(hash) -> Block object
  main_chain,  \* Blockchain._main_chain: Block objects, genesis -> tip
  accepted,    \* Block.accepted of every live Block object
  difficulty,  \* Blockchain.difficulty
  hung,        \* TRUE once add_block never returns (holding Blockchain._lock)
  resubmitted, \* how often a caller has submitted a block a second time
  lastOp,      \* the last store operation, its argument and its result
  running,         \* sim_api._simulation_running
  paused,          \* sim_api._simulation_paused
  work,            \* per miner: Miner.prev_hash, height, current_data,
                   \* difficulty
  hash_rate,       \* per miner: Miner.hash_rate
  miner_paused,    \* Miner.paused of the miners of the run
  controller_difficulty,  \* DifficultyController.current_difficulty
  sweepers,        \* the live _pruning_loop threads, oldest first: the
                   \* locals last_block_height and time_at_last_block
  pruning_active,  \* sim_api._pruning_active
  now,             \* time.time(), in seconds since the module was loaded
  lowered_at,      \* <<time>> of the last decrease by the stillness rule,
                   \* <<>> before the first
  snapshot,        \* per miner: the work its mining cycle copied
  fields_read,     \* per miner: how many of the four work fields the
                   \* cycle top in progress has copied (0: none in progress)
  nonce_cursor,    \* per miner whose cursor is followed: the nonce its
                   \* loop tries next
  loops,           \* per followed _mining_loop thread: Miner.is_mining
                   \* of its miner and the candidate its pending
                   \* on_block_found call holds
  timers,          \* started threading.Timer objects: (block, prev_head)
  accepted_count,  \* sim_api._accepted_count
  stale_count,     \* sim_api._stale_count
  ever_canonical,  \* the blocks the run has had on its canonical chain
  accepting,       \* the acceptance step that holds sim_api._simulation_lock
  events,          \* the events delivered to the sink (_ui_callback)
  recent_block_times,  \* sim_api._recent_block_times
  add_calls,       \* add_block calls of acceptance steps since the last reset
  calls,           \* calls of the control interface made so far
  stats,           \* what the last get_stats returned
  block_times,     \* DifficultyController.block_times
  sink_raises,     \* the consumer's callback raises when it is called
  last             \* the last call of the consumer or round of a sweep
                   \* thread, and how it ended

storevars ==
  <<blocks, main_chain, accepted, difficulty, hung, resubmitted, lastOp>>
minervars ==
  <<work, snapshot, fields_read, nonce_cursor, hash_rate, miner_paused>>
sweepvars == <<sweepers, pruning_active, now, lowered_at>>
ctlvars == <<paused, controller_difficulty, sweepvars, calls>>
countvars == <<accepted_count, stale_count, recent_block_times, add_calls>>
simvars ==
  <<running, minervars, ctlvars, timers, accepting, countvars, events,
    ever_canonical, stats, block_times, last, sink_raises, loops>>
vars == <<storevars, simvars>>

\* ------------------------------------------------------------ hash model
Abs(x) == IF x < 0 THEN -x ELSE x

RECURSIVE Pow2(_)
Pow2(d) == IF d = 0 THEN 1 ELSE 2 * Pow2(d - 1)

\* str(n) of a non-negative integer: its decimal digits
RECURSIVE Str(_)
Str(n) == IF n < 10 THEN <<n>> ELSE Append(Str(n \div 10), n % 10)

\* int(s) of a string of decimal digits
RECURSIVE ParseInt(_)
ParseInt(s) ==
  IF Len(s) = 0 THEN 0
  ELSE 10 * ParseInt(SubSeq(s, 1, Len(s) - 1)) + s[Len(s)]

\* "0" * 64
GENESIS_PREV == [i \in 1..64 |-> 0]

\* Python's builtin hash() of the strings the model uses (the value depends
\* on PYTHONHASHSEED; these are one possible assignment).
StrHash(s) ==
  CASE s = "Genesis Block"     -> 3
    [] s = "genesis"           -> 12
    [] s = "Hello Blockchain!" -> 11
    [] s = "miner_1"           -> 17
    [] s = "miner_2"           -> 23
    [] OTHER                   -> 1

\* abs(combined) % 10000.  Every term is non-negative for the inputs drawn
\* here, so abs() leaves the sum as it is; the millisecond term is reduced
\* before the multiplication to stay within machine integers.
compute_block_hash(prev_hash, height, timestamp, data, nonce, miner_id) ==
  LET prev_hash_int == ParseInt(prev_hash)
      ms == (timestamp * 1000) % HASH_MOD
      combined == prev_hash_int
                  + height * 7919
                  + ms * 6131
                  + StrHash(data) * 4969
                  + nonce * 3571
                  + StrHash(miner_id) * 2927
  IN Abs(combined) % HASH_MOD

hash_meets_difficulty(block_hash, d) ==
  LET threshold == BASE_THRESHOLD \div Pow2(d)
  IN block_hash < threshold

\* ----------------------------------------------------------- Block objects
\* Block.__init__ / __post_init__: hash = None means "compute it"
NoHash == -1

Block(height, prev_hash, timestamp, data, nonce, miner_id, hash, oid) ==
  [height    |-> height,
   prev_hash |-> prev_hash,
   timestamp |-> timestamp,
   data      |-> data,
   nonce     |-> nonce,
   miner_id  |-> miner_id,
   hash      |-> IF hash = NoHash
                 THEN compute_block_hash(prev_hash, height, timestamp,
                                         data, nonce, miner_id)
                 ELSE hash,
   oid       |-> oid]

\* the fields dataclass __eq__ compares, Block.accepted apart
Fields(b) == [b EXCEPT !.oid = 0]

GenesisBlockAtOne ==
  Block(1, GENESIS_PREV, GenesisTime, "Genesis Block", 0, "genesis",
        compute_block_hash(GENESIS_PREV, 1, GenesisTime, "Genesis Block", 0,
                           "genesis"), 0)

GenesisBlock ==
  Block(0, GENESIS_PREV, GenesisTime, "Genesis Block", 0, "genesis",
        compute_block_hash(GENESIS_PREV, 0, GenesisTime, "Genesis Block",
                           0, "genesis"),
        0)

\* str(block.hash), the key of the pool
Key(b) == Str(b.hash)

Range(f) == {f[x] : x \in DOMAIN f}
ChainSet(chain) == {chain[i] : i \in 1..Len(chain)}
Tip(chain) == chain[Len(chain)]
Reverse(s) == [i \in 1..Len(s) |-> s[Len(s) + 1 - i]]

\* `b in lst` of Python: identity, else dataclass equality over all fields
\* (accepted included), with the flags taken from acc
InList(b, chain, acc) ==
  \E i \in 1..Len(chain) :
    \/ chain[i] = b
    \/ (Fields(chain[i]) = Fields(b) /\ acc[chain[i]] = acc[b])

\* ------------------------------------------------------------ chain store
\* validate_block without the comparison with the parent's timestamp
validate_block_unordered(block, current_time) ==
  LET computed_hash == compute_block_hash(block.prev_hash, block.height,
                                          block.timestamp, block.data,
                                          block.nonce, block.miner_id)
      prev_key == block.prev_hash
  IN IF computed_hash # block.hash THEN FALSE
     ELSE IF ~hash_meets_difficulty(block.hash, difficulty) THEN FALSE
     ELSE IF block.timestamp > current_time + FUTURE_WINDOW THEN FALSE
     ELSE IF block.height = 0 THEN TRUE
     ELSE IF prev_key \notin DOMAIN blocks THEN FALSE
     ELSE block.height = blocks[prev_key].height + 1

\* validate_block that lets a block with an unknown parent pass
validate_block_orphans(block, current_time) ==
  LET computed_hash == compute_block_hash(block.prev_hash, block.height,
                                          block.timestamp, block.data,
                                          block.nonce, block.miner_id)
      prev_key == block.prev_hash
  IN IF computed_hash # block.hash THEN FALSE
     ELSE IF ~hash_meets_difficulty(block.hash, difficulty) THEN FALSE
     ELSE IF block.timestamp > current_time + FUTURE_WINDOW THEN FALSE
     ELSE IF block.height = 0 THEN TRUE
     ELSE IF prev_key \notin DOMAIN blocks THEN TRUE
     ELSE LET prev_block == blocks[prev_key]
          IN IF block.height # prev_block.height + 1 THEN FALSE
             ELSE IF block.timestamp < prev_block.timestamp THEN FALSE
             ELSE TRUE

\* Blockchain.validate_block(block); current_time is what time.time()
\* returns during the call
validate_block(block, current_time) ==
  LET computed_hash == compute_block_hash(block.prev_hash, block.height,
                                          block.timestamp, block.data,
                                          block.nonce, block.miner_id)
      prev_key == block.prev_hash
  IN IF computed_hash # block.hash THEN FALSE
     ELSE IF ~hash_meets_difficulty(block.hash, difficulty) THEN FALSE
     ELSE IF block.timestamp > current_time + FUTURE_WINDOW THEN FALSE
     ELSE IF block.height = 0 THEN TRUE
     ELSE IF prev_key \notin DOMAIN blocks THEN FALSE
     ELSE LET prev_block == blocks[prev_key]
          IN IF block.height # prev_block.height + 1 THEN FALSE
             ELSE IF block.timestamp < prev_block.timestamp THEN FALSE
             ELSE TRUE

\* the pool after  self._blocks[str(block.hash)] = block
PoolPut(pool, block) ==
  [k \in (DOMAIN pool) \cup {Key(block)} |->
     IF k = Key(block) THEN block ELSE pool[k]]

\* The backward walk of add_block through the pool `pool`.  kind = "chain":
\* the walk reached a height-0 block and `chain` is tip -> root; "none": a
\* prev_hash is not in the pool (chain = None); "loop": the walk comes back
\* to a block it has already visited and the while-loop never ends.  The
\* walk only visits pool entries, so more than |pool| moves mean a cycle.
RECURSIVE BuildChain(_, _, _, _)
BuildChain(pool, cursor, chain, fuel) ==
  LET chain2 == Append(chain, cursor)
  IN IF cursor.prev_hash \in DOMAIN pool
     THEN LET nxt == pool[cursor.prev_hash]
          IN IF nxt.height = 0
             THEN [kind |-> "chain", chain |-> Append(chain2, nxt)]
             ELSE IF fuel = 0
                  THEN [kind |-> "loop", chain |-> <<>>]
                  ELSE BuildChain(pool, nxt, chain2, fuel - 1)
     ELSE [kind |-> "none", chain |-> <<>>]

\* a fork choice that also switches at equal height
ExceedsTipOrEqual(block, current_tip) == block.height >= current_tip.height

\* the fork-choice test of add_block: strictly longer than the main chain
ExceedsTip(block, current_tip) == block.height > current_tip.height

\* a rejection that has already registered the block in the pool
RejectedAfterPut(block) ==
  [blocks |-> PoolPut(blocks, block), main_chain |-> main_chain,
   accepted |-> [b \in Range(PoolPut(blocks, block)) \cup ChainSet(main_chain)
                   |-> IF b \in DOMAIN accepted THEN accepted[b] ELSE FALSE],
   valid |-> FALSE, ret |-> FALSE, hung |-> FALSE]

\* add_block when validate_block fails: return False, nothing touched
Rejected(block) ==
  [blocks |-> blocks, main_chain |-> main_chain, accepted |-> accepted,
   valid |-> FALSE, ret |-> FALSE, hung |-> FALSE]

\* Blockchain.add_block(block) on the current store: the store it leaves,
\* what it returns, and whether it returns at all.
add_block(block, current_time) ==
  IF ~validate_block(block, current_time)
  THEN Rejected(block)
  ELSE
    LET pool == PoolPut(blocks, block)
        current_tip == Tip(main_chain)
        walk == IF ExceedsTip(block, current_tip)
                THEN BuildChain(pool, block, <<>>, Cardinality(DOMAIN pool))
                ELSE [kind |-> "skip", chain |-> <<>>]
        live == Range(pool) \cup ChainSet(main_chain)
        acc0 == [b \in live |-> IF b \in DOMAIN accepted
                                THEN accepted[b] ELSE FALSE]
    IN IF walk.kind = "loop"
       THEN [blocks |-> pool, main_chain |-> main_chain, accepted |-> acc0,
             valid |-> TRUE, ret |-> FALSE, hung |-> TRUE]
       ELSE IF walk.kind = "chain"
       THEN LET new_main == Reverse(walk.chain)
                acc1 == [b \in live |->
                           IF b \in ChainSet(new_main) THEN TRUE
                           ELSE IF b \in ChainSet(main_chain) THEN FALSE
                           ELSE acc0[b]]
            IN [blocks |-> pool, main_chain |-> new_main, accepted |-> acc1,
                valid |-> TRUE, ret |-> TRUE, hung |-> FALSE]
       ELSE [blocks |-> pool, main_chain |-> main_chain,
             accepted |-> [acc0 EXCEPT ![block] = FALSE],
             valid |-> TRUE, ret |-> FALSE, hung |-> FALSE]

\* Block objects that the pool or the canonical chain still reference
Live(pool, chain) == Range(pool) \cup ChainSet(chain)

\* a pruning that does not spare the blocks of the main chain
prune_any_branch(max_depth_behind) ==
  LET main_tip_height == Tip(main_chain).height
      d == main_tip_height - max_depth_behind
      threshold_height == IF d > 0 THEN d ELSE 0
      blocks_to_remove ==
        {k \in DOMAIN blocks : blocks[k].height < threshold_height}
  IN [blocks |-> [k \in (DOMAIN blocks) \ blocks_to_remove |-> blocks[k]],
      ret |-> Cardinality(blocks_to_remove)]

\* Blockchain.prune_old_branches(max_depth_behind)
prune_old_branches(max_depth_behind) ==
  LET main_tip_height == Tip(main_chain).height
      d == main_tip_height - max_depth_behind
      threshold_height == IF d > 0 THEN d ELSE 0
      blocks_to_remove ==
        {k \in DOMAIN blocks :
           /\ ~InList(blocks[k], main_chain, accepted)
           /\ blocks[k].height < threshold_height}
  IN [blocks |-> [k \in (DOMAIN blocks) \ blocks_to_remove |-> blocks[k]],
      ret |-> Cardinality(blocks_to_remove)]

\* ------------------------------------------------- inputs of the operations
Payload == "Hello Blockchain!"
FutureTime == GenesisTime + FUTURE_WINDOW + 1
\* what time.time() may return during a call of the store
ClockReadings == {GenesisTime, GenesisTime + 1}

\* <<height, parent digest, own digest>> of the blocks submitted.  31 is the
\* digest of the genesis block.  A first branch 7 - 42 - 200 and a second
\* branch 99 - 7 whose second block collides with the first block of the
\* first branch; a block that collides with its own parent (31, 31); a
\* child of digest 7 one level lower (for a parent of height 0); a block
\* whose height does not fit its parent; a block whose digest 400 misses
\* the default difficulty.
Shapes ==
  {<<1, 31, 7>>, <<2, 7, 42>>, <<3, 42, 200>>,
   <<1, 31, 99>>, <<2, 99, 7>>,
   <<1, 31, 31>>, <<1, 7, 42>>, <<2, 31, 99>>, <<1, 31, 400>>}

\* the nonce in 0..9999 for which the digest of the other five fields is
\* `target` (3571 * 8331 = 1 mod 10000): what a search over nonces finds
NonceFor(prev_hash, height, timestamp, data, miner_id, target) ==
  LET rest == compute_block_hash(prev_hash, height, timestamp, data, 0,
                                 miner_id)
  IN (((target - rest + HASH_MOD) % HASH_MOD) * 8331) % HASH_MOD

\* a block mined by miner_id on the payload data: hash = None, so the
\* constructor computes it
MinedWith(height, prev_hash, timestamp, data, miner_id, target) ==
  Block(height, prev_hash, timestamp, data,
        NonceFor(prev_hash, height, timestamp, data, miner_id, target),
        miner_id, NoHash, 0)

Mined(height, prev_hash, timestamp, miner_id, target) ==
  MinedWith(height, prev_hash, timestamp, Payload, miner_id, target)

\* the blocks a caller of the store submits
ShapeBlocks ==
  {Mined(sh[1], Str(sh[2]), GenesisTime, "miner_1", sh[3]) : sh \in Shapes}

\* a block of height 0 that collides with a block of the first branch
RootBlocks == {Mined(0, GENESIS_PREV, GenesisTime, "miner_1", 7)}

\* blocks stamped before the genesis block and beyond the future window
OddTimeBlocks ==
  {Mined(1, Str(31), timestamp, "miner_1", 7) :
     timestamp \in {GenesisTime - 1, FutureTime}}

\* blocks whose hash field was changed after mining
TamperedBlocks ==
  {[b EXCEPT !.hash = (b.hash + 1) % HASH_MOD] :
     b \in {m \in ShapeBlocks : m.height = 1}}

CandidateBlocks ==
  ShapeBlocks \cup RootBlocks \cup OddTimeBlocks \cup TamperedBlocks

\* a Block object not referenced by the store: the object tag is the least
\* one that no block of the canonical chain with the same fields carries
FreshOid(b) ==
  CHOOSE o \in 0..2 :
    /\ [b EXCEPT !.oid = o] \notin ChainSet(main_chain)
    /\ \A o2 \in 0..2 :
         [b EXCEPT !.oid = o2] \notin ChainSet(main_chain) => o <= o2

NoBlock == Block(0, <<>>, 0, "", 0, "", 0, 0)

\* get_stats has not been called
NoStats == [called |-> FALSE]

\* a call (of the control interface, of the discovery callback, of a sweep
\* round) that returned to its caller, one whose exception reached the
\* caller, and the stand-in before the first call
Returned(op) == [op |-> op, raised |-> FALSE]
Raised(op) == [op |-> op, raised |-> TRUE]
NoCall == Returned("")
Outcome(op, raised) == IF raised THEN Raised(op) ELSE Returned(op)

\* a call `_ui_callback(event)` that stands in no try block: what the sink
\* raises leaves the function that made the call
Unguarded(raises) == raises

\* `try: _ui_callback(event)` with an except clause that raises again
GuardDropped(raises) == raises

\* `try: _ui_callback(event)` followed by `except Exception: pass`:
\* nothing leaves the try block
Guarded(raises) == FALSE

\* _pruning_loop: `time_since_last_block > 15`
STILLNESS_TIMEOUT == 15

\* bounds: the clock is read up to MaxNow, TickSeconds apart
MaxNow == 40
TickSeconds == 20

\* what time.time() can return once it has returned t
Readings(t) == {x \in {t, t + TickSeconds} : x <= MaxNow}

\* the locals of a _pruning_loop thread when it enters its loop
NewSweeper(current_time) ==
  [last_block_height |-> 0, time_at_last_block |-> current_time]

\* ------------------------------------------------------------------ actions
\* the module globals of sim_api before start_simulation: no miners
NotStarted ==
  /\ running = FALSE
  /\ paused = FALSE
  /\ work = <<>>
  /\ snapshot = <<>>
  /\ fields_read = <<>>
  /\ nonce_cursor = <<>>
  /\ loops = <<>>
  /\ hash_rate = <<>>
  /\ miner_paused = FALSE
  /\ controller_difficulty = 0
  /\ sweepers = <<>>
  /\ pruning_active = FALSE
  /\ now = 0
  /\ lowered_at = <<>>
  /\ timers = {}
  /\ accepted_count = 0
  /\ stale_count = 0
  /\ ever_canonical = {GenesisBlock}
  /\ stats = NoStats
  /\ block_times = <<>>
  /\ last = NoCall
  /\ sink_raises = FALSE
  /\ accepting = {}
  /\ events = {}
  /\ recent_block_times = <<>>
  /\ add_calls = 0
  /\ calls = 0

Init ==
  /\ blocks = [k \in {Key(GenesisBlock)} |-> GenesisBlock]
  /\ main_chain = <<GenesisBlock>>
  /\ accepted = [b \in {GenesisBlock} |-> TRUE]
  /\ difficulty = DEFAULT_DIFFICULTY
  /\ hung = FALSE
  /\ resubmitted = 0
  /\ lastOp = [op |-> "init", block |-> NoBlock, valid |-> FALSE,
               ret |-> FALSE, count |-> 0]
  /\ NotStarted

\* the store after add_block(block) has run while the clock showed
\* current_time; lastOp keeps the block only when the store took it
DoAdd(block, current_time) ==
  LET r == add_block(block, current_time)
  IN /\ blocks' = r.blocks
     /\ main_chain' = r.main_chain
     /\ accepted' = [b \in Live(r.blocks, r.main_chain) |-> r.accepted[b]]
     /\ hung' = r.hung
     /\ lastOp' = [op |-> "add",
                   block |-> IF r.valid THEN block ELSE NoBlock,
                   valid |-> r.valid, ret |-> r.ret, count |-> 0]
     /\ UNCHANGED <<difficulty, simvars>>

\* the store references a Block object with the fields of b
IsCopy(b) == \E x \in Live(blocks, main_chain) : Fields(x) = Fields(b)

\* add_block of a newly constructed Block; one with the fields of a block
\* the store knows is a second submission of that block
AddNewBlock ==
  /\ ~hung
  /\ \E b0 \in CandidateBlocks, current_time \in ClockReadings :
       /\ IsCopy(b0) => resubmitted < MaxResubmit
       /\ resubmitted' = IF IsCopy(b0) THEN resubmitted + 1 ELSE resubmitted
       /\ DoAdd([b0 EXCEPT !.oid = FreshOid(b0)], current_time)

\* add_block of a Block object the store already references
AddKnownBlock ==
  /\ ~hung
  /\ resubmitted < MaxResubmit
  /\ resubmitted' = resubmitted + 1
  /\ \E block \in Live(blocks, main_chain), current_time \in ClockReadings :
       DoAdd(block, current_time)

PruneOldBranches ==
  /\ ~hung
  /\ \E max_depth_behind \in 0..MaxK :
       LET r == prune_old_branches(max_depth_behind)
       IN /\ blocks' = r.blocks
          /\ accepted' = [b \in Live(r.blocks, main_chain) |-> accepted[b]]
          /\ lastOp' = [op |-> "prune", block |-> NoBlock, valid |-> FALSE,
                        ret |-> FALSE, count |-> r.ret]
          /\ UNCHANGED <<main_chain, difficulty, hung, resubmitted, simvars>>

Next ==
  \/ AddNewBlock
  \/ AddKnownBlock
  \/ PruneOldBranches

Spec == Init /\ [][Next]_vars

TypeOK ==
  /\ Len(main_chain) >= 1
  /\ DOMAIN accepted = Live(blocks, main_chain)

\* ------------------------------------------- the store under re-submission
\* bound: second submissions in a run that prunes
MaxPruneResubmit == 2

\* a branch 7 - 42 and a second block of height 1
PruneShapes == {<<1, 31, 7>>, <<2, 7, 42>>, <<1, 31, 99>>}
PruneBlocks ==
  {Mined(sh[1], Str(sh[2]), GenesisTime, "miner_1", sh[3]) :
     sh \in PruneShapes}

\* add_block of a newly constructed Block
AddPruneBlock ==
  /\ ~hung
  /\ \E b0 \in PruneBlocks :
       /\ IsCopy(b0) => resubmitted < MaxPruneResubmit
       /\ resubmitted' = IF IsCopy(b0) THEN resubmitted + 1 ELSE resubmitted
       /\ DoAdd([b0 EXCEPT !.oid = FreshOid(b0)], GenesisTime)

\* add_block of a Block object the store already references
ReAddBlock ==
  /\ ~hung
  /\ resubmitted < MaxPruneResubmit
  /\ resubmitted' = resubmitted + 1
  /\ \E block \in Live(blocks, main_chain) : DoAdd(block, GenesisTime)

PruneNext ==
  \/ AddPruneBlock
  \/ ReAddBlock
  \/ PruneOldBranches

PruneSpec == Init /\ [][PruneNext]_vars

\* ------------------------------------------------------------ orchestrator
\* bounds: acceptance steps scheduled in one run, calls of the control
\* interface
MaxFound == 3
MaxCalls == 3

\* start_simulation with config num_miners = 2
Miners == {"miner_1", "miner_2"}

\* the digests the nonce searches of the run end on (both meet difficulty 4)
SimDigests == {7, 42}

\* Miner.__init__ and Miner.start: the fields of a started miner that has
\* not been given work
InitialWork(data, d) ==
  [prev_hash |-> 0, height |-> 0, data |-> data, difficulty |-> d]

\* Miner.set_work overwrites the miner's work with its arguments
set_work(prev_hash, height, current_data, current_difficulty) ==
  [prev_hash |-> prev_hash, height |-> height, data |-> current_data,
   difficulty |-> current_difficulty]

\* bound: the nonces of the model, for the 2^32 of the 32-bit cursor
NonceSpace == 3
Nonces == 0..(NonceSpace - 1)

\* the cursors after a set_work for every miner: each followed cursor is
\* drawn anew
Redrawn(cursors) == [DOMAIN cursors -> Nonces]

\* the payload _broadcast_new_work_to_miners hands out: the one of the
\* first miner of the roster
FirstMinerData(w) ==
  IF DOMAIN w = {} THEN Payload ELSE w["miner_1"].data

\* a broadcast that renews payload and difficulty and leaves every miner
\* on the head it already had
BroadcastKeepingHead(chain, w, d) ==
  [m \in DOMAIN w |->
     set_work(w[m].prev_hash, w[m].height, FirstMinerData(w), d)]

\* _broadcast_new_work_to_miners: head digest and height, payload and
\* store difficulty for every miner
BroadcastWork(chain, w, d) ==
  [m \in DOMAIN w |->
     set_work(Tip(chain).hash, Tip(chain).height, FirstMinerData(w), d)]

\* `for miner in _miners: miner.difficulty = d`
WithDifficulty(w, d) == [m \in DOMAIN w |-> [w[m] EXCEPT !.difficulty = d]]

\* an event as the sink receives it: its kind and, for the block events,
\* the block it carries
Event(kind, block) == [kind |-> kind, block |-> block]
LogEvent == Event("log", NoBlock)

\* start_simulation: the events of a start on a new Blockchain
StartEvents ==
  {LogEvent, Event("simulation_start", NoBlock),
   Event("block_found", GenesisBlock)}

\* the state start_simulation leaves: a new Blockchain, the miner threads
\* started before the first broadcast (their first cycle may have copied
\* the initial work), the head broadcast as work, the counters untouched.
\* The configured difficulty and hash rates are the ones that keep the
\* default difficulty.
RunStarted ==
  /\ blocks = [k \in {Key(GenesisBlock)} |-> GenesisBlock]
  /\ main_chain = <<GenesisBlock>>
  /\ accepted = [b \in {GenesisBlock} |-> TRUE]
  /\ difficulty = DEFAULT_DIFFICULTY
  /\ hung = FALSE
  /\ resubmitted = 0
  /\ lastOp = [op |-> "init", block |-> NoBlock, valid |-> FALSE,
               ret |-> FALSE, count |-> 0]
  /\ running = TRUE
  /\ paused = FALSE
  /\ work = [m \in Miners |->
               set_work(GenesisBlock.hash, 0, Payload, DEFAULT_DIFFICULTY)]
  /\ snapshot = [m \in Miners |-> InitialWork(Payload, DEFAULT_DIFFICULTY)]
  /\ fields_read = [m \in Miners |-> 0]
  /\ hash_rate = [m \in Miners |-> 2000]
  /\ miner_paused = FALSE
  /\ controller_difficulty = DEFAULT_DIFFICULTY
  /\ sweepers = <<NewSweeper(0)>>
  /\ pruning_active = TRUE
  /\ now = 0
  /\ lowered_at = <<>>
  /\ timers = {}
  /\ accepted_count = 0
  /\ stale_count = 0
  /\ ever_canonical = {GenesisBlock}
  /\ stats = NoStats
  /\ block_times = <<>>
  /\ last = NoCall
  /\ sink_raises = FALSE
  /\ accepting = {}
  /\ events = StartEvents
  /\ recent_block_times = <<>>
  /\ add_calls = 0
  /\ calls = 0

\* the run started, no miner's nonce cursor and no loop thread followed
SimInit ==
  /\ RunStarted
  /\ nonce_cursor = <<>>
  /\ loops = <<>>

\* `with _simulation_lock:` can be entered: no acceptance step holds it
MutexFree == accepting = {}

\* the candidates the miners have announced so far
Candidates ==
  {e.block : e \in {x \in events : x.kind = "block_found" /\
                                     x.block.height > 0}}

\* Miner._mining_loop, top of a cycle: copy the current work, the four
\* copies with no write of the work between them (ReadWorkField takes
\* them one by one)
MinerSnapshot(m) ==
  /\ running
  /\ m \in DOMAIN work
  /\ ~miner_paused
  /\ snapshot[m] # work[m]
  /\ snapshot' = [snapshot EXCEPT ![m] = work[m]]
  /\ UNCHANGED <<sink_raises, loops, storevars, running, work, fields_read,
                 nonce_cursor, hash_rate, miner_paused, ctlvars, timers,
                 accepting, countvars, events, ever_canonical, stats,
                 block_times, last>>

\* Miner._mining_loop finds a nonce for the copied work and calls
\* _on_block_found, which waits for the lock and, if the simulation still
\* runs, captures the head, announces the candidate and starts the Timer
\* of the acceptance step
Discover(m, limit) ==
  /\ MutexFree
  /\ running
  /\ m \in DOMAIN work
  /\ ~miner_paused
  /\ Cardinality(Candidates) < limit
  /\ \E timestamp \in ClockReadings, target \in SimDigests :
       LET block == MinedWith(snapshot[m].height + 1,
                              Str(snapshot[m].prev_hash), timestamp,
                              snapshot[m].data, m, target)
       IN /\ hash_meets_difficulty(target, snapshot[m].difficulty)
          /\ block.hash = target /\ Event("block_found", block) \notin events
          /\ timers' =
               IF Guarded(sink_raises) THEN timers
               ELSE timers \cup
                      {[block |-> block, prev_head |-> Tip(main_chain)]}
          /\ events' =
               IF Guarded(sink_raises) THEN events \cup {LogEvent}
               ELSE events \cup {LogEvent, Event("block_found", block)}
  /\ last' = Outcome("on_block_found", Guarded(sink_raises))
  /\ UNCHANGED <<sink_raises, loops, storevars, running, minervars, ctlvars,
                 accepting, countvars, ever_canonical, stats, block_times>>

OnBlockFound(m) == Discover(m, MaxFound)

\* ---------------------------------------------------- difficulty controller
TARGET_BLOCK_TIME == 10
WINDOW == 10
MIN_DIFFICULTY == 1
MAX_DIFFICULTY == 8

RECURSIVE SumSeq(_)
SumSeq(xs) == IF xs = <<>> THEN 0 ELSE Head(xs) + SumSeq(Tail(xs))

Min(a, b) == IF a < b THEN a ELSE b
Max(a, b) == IF a > b THEN a ELSE b

\* DifficultyController.record_block_time: append, and drop the oldest
\* entry once more than WINDOW are held
record_block_time(window, block_time) ==
  LET w == Append(window, block_time)
  IN IF Len(w) > WINDOW THEN Tail(w) ELSE w

\* DifficultyController.adjust_difficulty(times) of a
\* controller at difficulty current: the difficulty it leaves and returns.
\* avg < target * 0.8 and avg > target * 1.2, both sides times 10 * len.
adjust_difficulty(current, target_block_time, times) ==
  LET total == SumSeq(times)
      n == Len(times)
  IN IF n = 0 THEN current
     ELSE IF 10 * total < 8 * target_block_time * n
          THEN Min(current + 1, MAX_DIFFICULTY)
     ELSE IF 10 * total > 12 * target_block_time * n
          THEN Max(current - 1, MIN_DIFFICULTY)
     ELSE current

\* _accept_block_delayed going on whatever the running flag says
ShouldAcceptAlways == TRUE

\* _accept_block_delayed: `if not _simulation_running: return`
ShouldAccept == running

\* _accept_block_delayed of a Timer that fires while the simulation runs,
\* up to the return of add_block
AcceptBlockDelayed ==
  /\ MutexFree
  /\ ShouldAccept
  /\ \E t \in timers, current_time \in ClockReadings :
       LET r == add_block(t.block, current_time)
       IN /\ timers' = timers \ {t}
          /\ blocks' = r.blocks
          /\ main_chain' = r.main_chain
          /\ accepted' = [b \in Live(r.blocks, r.main_chain) |-> r.accepted[b]]
          /\ hung' = r.hung
          /\ accepting' = {[block |-> t.block, prev_head |-> t.prev_head,
                            added |-> r.ret]}
          /\ ever_canonical' = ever_canonical \cup ChainSet(r.main_chain)
  /\ add_calls' = add_calls + 1
  /\ UNCHANGED <<sink_raises, loops, difficulty, resubmitted, lastOp, running,
                 minervars, ctlvars, accepted_count, stale_count,
                 recent_block_times, events, stats, block_times, last>>

\* the counters of _process_block_acceptance when the previous head is
\* counted only if it is not the genesis block
process_after_genesis(block, added, prev_head) ==
  [accepted_count |->
     IF added /\ prev_head.height > 0
     THEN accepted_count + 1 ELSE accepted_count,
   stale_count |-> IF added THEN stale_count ELSE stale_count + 1,
   recent_block_times |->
     IF added
     THEN Append(recent_block_times, block.timestamp - prev_head.timestamp)
     ELSE recent_block_times,
   block_times |->
     IF added
     THEN record_block_time(block_times,
                            block.timestamp - prev_head.timestamp)
     ELSE block_times,
   events |->
     {LogEvent,
      Event(IF added THEN "block_accepted" ELSE "block_stale", block)}]

\* _process_block_acceptance announcing every block as accepted
process_announcing_accepted(block, added, prev_head) ==
  [accepted_count |->
     IF added THEN accepted_count + 1 ELSE accepted_count,
   stale_count |-> IF added THEN stale_count ELSE stale_count + 1,
   recent_block_times |->
     IF added
     THEN Append(recent_block_times, block.timestamp - prev_head.timestamp)
     ELSE recent_block_times,
   block_times |->
     IF added
     THEN record_block_time(block_times,
                            block.timestamp - prev_head.timestamp)
     ELSE block_times,
   events |-> {LogEvent, Event("block_accepted", block)}]

\* _process_block_acceptance(block, added, prev_head, discovery_event):
\* the counters, the interval list and the controller's window it leaves,
\* the events it delivers.
\* prev_head is a Block object (never None), so `if prev_head` holds; the
\* list keeps its last 20 entries.
process_block_acceptance(block, added, prev_head) ==
  LET times == Append(recent_block_times,
                      block.timestamp - prev_head.timestamp)
  IN [accepted_count |->
        IF added /\ prev_head # NoBlock
        THEN accepted_count + 1 ELSE accepted_count,
      stale_count |-> IF added THEN stale_count ELSE stale_count + 1,
      recent_block_times |->
        IF added /\ prev_head # NoBlock
        THEN (IF Len(times) > 20 THEN Tail(times) ELSE times)
        ELSE recent_block_times,
      block_times |->
        IF added /\ prev_head # NoBlock
        THEN record_block_time(block_times,
                               block.timestamp - prev_head.timestamp)
        ELSE block_times,
      events |->
        {LogEvent,
         Event(IF added THEN "block_accepted" ELSE "block_stale", block)}]

\* the `except` clause after the counter update of
\* _process_block_acceptance is entered: the update (append, slice, +=)
\* raises
CounterUpdateRaises == FALSE

\* the sample-window re-evaluation of _process_block_acceptance is
\* reached and finds should_adjust_difficulty true: it sits in that
\* except clause, inside `if prev_head`
Reevaluates(added, prev_head, due) ==
  added /\ prev_head # NoBlock /\ CounterUpdateRaises /\ due

\* the rest of the acceptance step once add_block has returned (due is
\* what should_adjust_difficulty would answer: the controller is older
\* than 60 s):
\* _process_block_acceptance with its re-evaluation, fresh work for every
\* miner, lock released
ProcessBlockAcceptance ==
  /\ ~hung
  /\ \E a \in accepting, due \in BOOLEAN :
       LET p == process_block_acceptance(a.block, a.added, a.prev_head)
           re == Reevaluates(a.added, a.prev_head, due)
           new_difficulty ==
             adjust_difficulty(controller_difficulty, TARGET_BLOCK_TIME,
                               p.block_times)
           d == IF re THEN new_difficulty ELSE difficulty
       IN IF Guarded(sink_raises)
          THEN /\ events' = events \cup {LogEvent}
               /\ UNCHANGED <<accepted_count, stale_count,
                              recent_block_times, block_times,
                              controller_difficulty, difficulty, work,
                              nonce_cursor>>
          ELSE /\ accepted_count' = p.accepted_count
               /\ stale_count' = p.stale_count
               /\ recent_block_times' = p.recent_block_times
               /\ block_times' = p.block_times
               /\ controller_difficulty' =
                    IF re THEN new_difficulty ELSE controller_difficulty
               /\ difficulty' = d
               /\ work' = BroadcastWork(
                            main_chain,
                            IF re THEN WithDifficulty(work, d) ELSE work, d)
               /\ nonce_cursor' \in Redrawn(nonce_cursor)
               /\ events' = events \cup p.events \cup
                    (IF re THEN {Event("difficulty_update", NoBlock)}
                     ELSE {})
  /\ accepting' = {}
  /\ UNCHANGED <<sink_raises, loops, blocks, main_chain, accepted, hung,
                 resubmitted, lastOp, running, snapshot, fields_read,
                 hash_rate, miner_paused, paused, sweepvars, calls, timers,
                 add_calls, ever_canonical, stats, last>>

\* _accept_block_delayed of a Timer that fires after stop_simulation
AcceptAfterStop ==
  /\ MutexFree
  /\ ~ShouldAccept
  /\ \E t \in timers : timers' = timers \ {t}
  /\ UNCHANGED <<sink_raises, loops, storevars, running, minervars, ctlvars,
                 accepting, countvars, events, ever_canonical, stats,
                 block_times, last>>

\* the calls of the control interface going on whatever the flags say
RefusedNever(op) == FALSE

\* the early return at the head of each call of the control interface
Refused(op) ==
  CASE op = "start" -> running
    [] op = "stop" -> ~running
    [] op = "pause" -> ~running \/ paused
    [] op = "resume" -> ~running \/ ~paused
    [] op = "set_miner_rate" -> ~running
    [] op = "submit_data" -> ~running

\* `for miner in _miners: miner.stop()`: is_mining is cleared and the
\* thread is joined for at most one second; a thread that waits for the
\* lock in its on_block_found call outlives the join
Stopped(threads) ==
  [t \in DOMAIN threads |-> [threads[t] EXCEPT !.is_mining = FALSE]]

\* stop_simulation: the miners leave their loops, the flag goes down
StopSimulation ==
  /\ MutexFree
  /\ calls < MaxCalls
  /\ calls' = calls + 1
  /\ last' = Outcome("stop", Unguarded(sink_raises))
  /\ ~Refused("stop")
  /\ running' = FALSE
  /\ paused' = FALSE
  /\ pruning_active' = FALSE
  /\ loops' = Stopped(loops)
  /\ events' = events \cup {Event("simulation_stop", NoBlock)}
  /\ UNCHANGED <<sink_raises, storevars, minervars, controller_difficulty,
                 sweepers, now, lowered_at, timers, accepting, countvars,
                 ever_canonical, stats, block_times>>

SimNext ==
  \/ \E m \in Miners : MinerSnapshot(m)
  \/ \E m \in Miners : OnBlockFound(m)
  \/ AcceptBlockDelayed
  \/ ProcessBlockAcceptance
  \/ AcceptAfterStop
  \/ StopSimulation

SimSpec == SimInit /\ [][SimNext]_vars

\* the thread that holds _simulation_lock keeps running: an acceptance
\* step whose add_block has returned goes on to _process_block_acceptance
\* and releases the lock
SimLiveSpec == SimSpec /\ WF_vars(ProcessBlockAcceptance)

\* ------------------------------------------------------- control interface
\* bounds: candidates announced while the control interface is exercised,
\* calls of the control interface
MaxApiFound == 1
MaxApiCalls == 4

\* the config difficulties and the hash rates the calls are made with
ConfigDifficulties == {DEFAULT_DIFFICULTY, 20}
Rates == {500, 2000}
SubmittedData == {"tx"}

\* config['num_miners'] of the starts, as the roster it gives: none, or
\* miner_1 and miner_2
Rosters == {{}, Miners}

\* config['miner_rates'] of the starts: one rate for every miner
ConfigRates(roster) == {[m \in roster |-> rate] : rate \in Rates}

\* reset_simulation has run (or start_simulation never has): _blockchain
\* is None
NoBlockchain == main_chain = <<>>

\* the state of the module before the first start_simulation
ApiInit ==
  /\ blocks = <<>>
  /\ main_chain = <<>>
  /\ accepted = <<>>
  /\ difficulty = 0
  /\ hung = FALSE
  /\ resubmitted = 0
  /\ lastOp = [op |-> "init", block |-> NoBlock, valid |-> FALSE,
               ret |-> FALSE, count |-> 0]
  /\ running = FALSE
  /\ paused = FALSE
  /\ work = <<>>
  /\ snapshot = <<>>
  /\ fields_read = <<>>
  /\ nonce_cursor = <<>>
  /\ loops = <<>>
  /\ hash_rate = <<>>
  /\ miner_paused = FALSE
  /\ controller_difficulty = 0
  /\ sweepers = <<>>
  /\ pruning_active = FALSE
  /\ now = 0
  /\ lowered_at = <<>>
  /\ timers = {}
  /\ accepted_count = 0
  /\ stale_count = 0
  /\ ever_canonical = {}
  /\ stats = NoStats
  /\ block_times = <<>>
  /\ last = NoCall
  /\ sink_raises = FALSE
  /\ accepting = {}
  /\ events = {}
  /\ recent_block_times = <<>>
  /\ add_calls = 0
  /\ calls = 0

\* total_hash_rate of _apply_difficulty_for_hash_rate: the rates of the
\* miners that are mining and not paused
RECURSIVE SumRates(_, _)
SumRates(rates, ms) ==
  IF ms = {} THEN 0
  ELSE LET m == CHOOSE x \in ms : TRUE
       IN rates[m] + SumRates(rates, ms \ {m})

ActiveHashRate(rates, is_paused) ==
  IF is_paused THEN 0 ELSE SumRates(rates, DOMAIN rates)

\* the bucket of _apply_difficulty_for_hash_rate, clamped to [1, 8]
DesiredDifficulty(total_hash_rate) ==
  IF total_hash_rate < 1500 THEN 2
  ELSE IF total_hash_rate < 3000 THEN 3
  ELSE IF total_hash_rate < 6000 THEN 4
  ELSE IF total_hash_rate < 12000 THEN 5
  ELSE 6

\* _apply_difficulty_for_hash_rate that tells the controller and the
\* miners but not the store
apply_difficulty_skipping_store(chain, w, rates, is_paused, d, current) ==
  LET desired == DesiredDifficulty(ActiveHashRate(rates, is_paused))
  IN IF desired # current
     THEN [difficulty |-> d, controller_difficulty |-> desired,
           work |-> BroadcastWork(chain, WithDifficulty(w, desired), d),
           events |-> {Event("difficulty_update", NoBlock)}]
     ELSE [difficulty |-> d, controller_difficulty |-> current,
           work |-> w, events |-> {}]

\* _apply_difficulty_for_hash_rate: when the bucket of the active hash
\* rate differs from the controller's difficulty, the store, the
\* controller and every miner get it and the work is broadcast
apply_difficulty_for_hash_rate(chain, w, rates, is_paused, d, current) ==
  LET desired == DesiredDifficulty(ActiveHashRate(rates, is_paused))
  IN IF desired # current
     THEN [difficulty |-> desired, controller_difficulty |-> desired,
           work |-> BroadcastWork(chain, WithDifficulty(w, desired),
                                  desired),
           events |-> {Event("difficulty_update", NoBlock)}]
     ELSE [difficulty |-> d, controller_difficulty |-> current,
           work |-> w, events |-> {}]

\* start_simulation(config, ui_callback): a Blockchain is made unless one
\* is left from the last run, the roster is replaced by new miners, the
\* config difficulty goes to store, controller and miners, the head is
\* broadcast and the difficulty follows the hash rate. The counters and
\* pending Timers are left as they are.
StartSimulation ==
  /\ MutexFree
  /\ calls < MaxCalls
  /\ calls' = calls + 1
  /\ last' = Outcome("start", Unguarded(sink_raises))
  /\ block_times' = <<>>
  /\ ~Refused("start")
  /\ \E d \in ConfigDifficulties, roster \in Rosters :
     \E rates \in ConfigRates(roster) :
       LET chain == IF NoBlockchain THEN <<GenesisBlock>> ELSE main_chain
           started == [m \in roster |-> InitialWork(Payload, d)]
           a == apply_difficulty_for_hash_rate(
                  chain, BroadcastWork(chain, started, d), rates, FALSE,
                  d, d)
       IN /\ blocks' = IF NoBlockchain
                       THEN [k \in {Key(GenesisBlock)} |-> GenesisBlock]
                       ELSE blocks
          /\ main_chain' = chain
          /\ accepted' = IF NoBlockchain
                         THEN [b \in {GenesisBlock} |-> TRUE]
                         ELSE accepted
          /\ difficulty' = a.difficulty
          /\ controller_difficulty' = a.controller_difficulty
          /\ work' = a.work
          /\ snapshot' = started
          /\ fields_read' = [m \in roster |-> 0]
          /\ nonce_cursor' \in Redrawn(nonce_cursor)
          /\ hash_rate' = rates
          /\ events' = events \cup a.events \cup
                         {LogEvent, Event("simulation_start", NoBlock)} \cup
                         (IF Unguarded(sink_raises) THEN {}
                          ELSE {Event("block_found", chain[1])})
          /\ ever_canonical' = ever_canonical \cup ChainSet(chain)
  /\ running' = TRUE
  /\ miner_paused' = FALSE
  /\ sweepers' = Append(sweepers, NewSweeper(now))
  /\ pruning_active' = TRUE
  /\ UNCHANGED <<sink_raises, loops, hung, resubmitted, lastOp, paused,
                 timers, accepting, countvars, stats, now, lowered_at>>

\* pause_simulation: every miner is paused
PauseSimulation ==
  /\ MutexFree
  /\ calls < MaxCalls
  /\ calls' = calls + 1
  /\ last' = Outcome("pause", Unguarded(sink_raises))
  /\ ~Refused("pause")
  /\ paused' = TRUE
  /\ miner_paused' = TRUE
  /\ events' = events \cup {Event("simulation_pause", NoBlock)}
  /\ UNCHANGED <<sink_raises, loops, storevars, running, work, snapshot,
                 fields_read, nonce_cursor, hash_rate, controller_difficulty,
                 sweepvars, timers, accepting, countvars, ever_canonical,
                 stats, block_times>>

\* resume_simulation: every miner resumes, the head is broadcast and the
\* difficulty follows the hash rate
ResumeSimulation ==
  /\ MutexFree
  /\ calls < MaxCalls
  /\ calls' = calls + 1
  /\ last' = Outcome("resume", Unguarded(sink_raises))
  /\ ~Refused("resume")
  /\ LET a == apply_difficulty_for_hash_rate(
                main_chain, BroadcastWork(main_chain, work, difficulty),
                hash_rate, FALSE, difficulty, controller_difficulty)
     IN /\ difficulty' = a.difficulty
        /\ controller_difficulty' = a.controller_difficulty
        /\ work' = a.work
        /\ events' = events \cup a.events \cup
                       {Event("simulation_resume", NoBlock)}
  /\ nonce_cursor' \in Redrawn(nonce_cursor)
  /\ paused' = FALSE
  /\ miner_paused' = FALSE
  /\ UNCHANGED <<sink_raises, loops, blocks, main_chain, accepted, hung,
                 resubmitted, lastOp, running, snapshot, fields_read,
                 hash_rate, sweepvars, timers, accepting, countvars,
                 ever_canonical, stats, block_times>>

\* reset_simulation: the run is stopped without an event, Blockchain,
\* roster and controller are dropped, the counters return to zero;
\* _simulation_paused and the pending Timers are left as they are
ResetSimulation ==
  /\ MutexFree
  /\ calls < MaxCalls
  /\ calls' = calls + 1
  /\ last' = Returned("reset")
  /\ block_times' = <<>>
  /\ running' = FALSE
  /\ pruning_active' = IF running THEN FALSE ELSE pruning_active
  /\ loops' = IF running THEN Stopped(loops) ELSE loops
  /\ blocks' = <<>>
  /\ main_chain' = <<>>
  /\ accepted' = <<>>
  /\ difficulty' = 0
  /\ work' = <<>>
  /\ snapshot' = <<>>
  /\ fields_read' = <<>>
  /\ nonce_cursor' = nonce_cursor
  /\ hash_rate' = <<>>
  /\ miner_paused' = FALSE
  /\ controller_difficulty' = 0
  /\ accepted_count' = 0
  /\ stale_count' = 0
  /\ recent_block_times' = <<>>
  /\ add_calls' = 0
  /\ UNCHANGED <<sink_raises, hung, resubmitted, lastOp, paused, sweepers,
                 now, lowered_at, timers, accepting, events, ever_canonical,
                 stats>>

\* set_miner_rate(miner_id, rate): the miner's rate changes and the
\* difficulty follows the hash rate
SetMinerRate ==
  /\ MutexFree
  /\ calls < MaxCalls
  /\ calls' = calls + 1
  /\ last' = Returned("set_miner_rate")
  /\ ~Refused("set_miner_rate")
  /\ \E m \in Miners, rate \in Rates :
       LET rates == IF m \in DOMAIN hash_rate
                    THEN [hash_rate EXCEPT ![m] = rate]
                    ELSE hash_rate
           a == apply_difficulty_for_hash_rate(
                  main_chain, work, rates, miner_paused, difficulty,
                  controller_difficulty)
       IN /\ hash_rate' = rates
          /\ difficulty' = a.difficulty
          /\ controller_difficulty' = a.controller_difficulty
          /\ work' = a.work
          /\ events' = events \cup a.events
          /\ IF a.events = {} THEN nonce_cursor' = nonce_cursor
             ELSE nonce_cursor' \in Redrawn(nonce_cursor)
  /\ UNCHANGED <<sink_raises, loops, blocks, main_chain, accepted, hung,
                 resubmitted, lastOp, running, paused, snapshot, fields_read,
                 miner_paused, sweepvars, timers, accepting, countvars,
                 ever_canonical, stats, block_times>>

\* submit_data(data_str): every miner's payload changes, the sink is told
SubmitData ==
  /\ MutexFree
  /\ calls < MaxCalls
  /\ calls' = calls + 1
  /\ last' = Outcome("submit_data", Unguarded(sink_raises))
  /\ ~Refused("submit_data")
  /\ \E data_str \in SubmittedData :
       /\ work' = [m \in DOMAIN work |-> [work[m] EXCEPT !.data = data_str]]
       /\ events' = events \cup {Event("data_submission", NoBlock)}
  /\ UNCHANGED <<sink_raises, loops, storevars, running, paused, snapshot,
                 fields_read, nonce_cursor, hash_rate, miner_paused,
                 controller_difficulty, sweepvars, timers, accepting,
                 countvars, ever_canonical, stats, block_times>>

\* the stillness rule lowering whatever the difficulty is
AboveFloorAlways(current_diff) == TRUE

\* _pruning_loop: `if current_diff > 1`
AboveFloor(current_diff) == current_diff > 1

\* one round of the _pruning_loop thread i, which has slept and found the
\* simulation running: prune_old_branches(10), then the stillness rule:
\* a longer chain restarts the thread's timer; else, once more than 15 s
\* have passed on that timer, a controller difficulty above 1 is lowered
\* by 1 on controller, store and miners, the work is broadcast and the
\* timer restarts. What a callback raises inside the round ends the
\* round, not the thread (the body of the loop is one try block).
PruningRound(i, limit) ==
  /\ MutexFree
  /\ calls < limit
  /\ calls' = calls + 1
  /\ running
  /\ \E current_time \in Readings(now) :
     LET r == prune_old_branches(10)
         current_height == Len(main_chain)
         pruned == r.ret > 0
         cut_short == pruned /\ Guarded(sink_raises)
         grown == /\ ~cut_short
                  /\ current_height > sweepers[i].last_block_height
         time_since_last_block ==
           current_time - sweepers[i].time_at_last_block
         lower == /\ ~cut_short
                  /\ ~grown
                  /\ time_since_last_block > STILLNESS_TIMEOUT
                  /\ AboveFloor(controller_difficulty)
         new_difficulty == controller_difficulty - 1
     IN /\ blocks' = r.blocks
        /\ accepted' = [b \in Live(r.blocks, main_chain) |-> accepted[b]]
        /\ sweepers' =
             [sweepers EXCEPT
                ![i] = IF grown
                       THEN [last_block_height |-> current_height,
                             time_at_last_block |-> current_time]
                       ELSE IF lower /\ ~Guarded(sink_raises)
                       THEN [@ EXCEPT !.time_at_last_block = current_time]
                       ELSE @]
        /\ now' = current_time
        /\ lowered_at' = IF lower THEN <<current_time>> ELSE lowered_at
        /\ controller_difficulty' =
             IF lower THEN new_difficulty ELSE controller_difficulty
        /\ difficulty' = IF lower THEN new_difficulty ELSE difficulty
        /\ IF lower THEN nonce_cursor' \in Redrawn(nonce_cursor)
           ELSE nonce_cursor' = nonce_cursor
        /\ work' = IF lower
                   THEN BroadcastWork(main_chain,
                                      WithDifficulty(work, new_difficulty),
                                      new_difficulty)
                   ELSE work
        /\ events' = events
             \cup (IF pruned THEN {LogEvent} ELSE {})
             \cup (IF pruned /\ ~cut_short
                   THEN {Event("pruning", NoBlock)} ELSE {})
             \cup (IF lower THEN {LogEvent} ELSE {})
             \cup (IF lower /\ ~Guarded(sink_raises)
                   THEN {Event("difficulty_update", NoBlock)} ELSE {})
  /\ last' = Returned("sweep")
  /\ UNCHANGED <<sink_raises, loops, main_chain, hung, resubmitted, lastOp,
                 running, paused, snapshot, fields_read, hash_rate,
                 miner_paused, timers, accepting, countvars, ever_canonical,
                 stats, block_times, pruning_active>>

\* a _pruning_loop thread back at `while _pruning_active` after
\* stop_simulation or reset_simulation: it leaves the loop
SweeperExit(i) ==
  /\ ~pruning_active
  /\ sweepers' = [k \in 1..(Len(sweepers) - 1) |->
                    IF k < i THEN sweepers[k] ELSE sweepers[k + 1]]
  /\ UNCHANGED <<sink_raises, loops, storevars, running, minervars, paused,
                 controller_difficulty, pruning_active, now, lowered_at,
                 calls, timers, accepting, countvars, events,
                 ever_canonical, stats, block_times, last>>

ApiNext ==
  \/ StartSimulation
  \/ StopSimulation
  \/ PauseSimulation
  \/ ResumeSimulation
  \/ ResetSimulation
  \/ SetMinerRate
  \/ SubmitData
  \/ \E i \in DOMAIN sweepers : PruningRound(i, MaxApiCalls)
  \/ \E i \in DOMAIN sweepers : SweeperExit(i)
  \/ \E m \in Miners : MinerSnapshot(m)
  \/ \E m \in Miners : Discover(m, MaxApiFound)
  \/ AcceptBlockDelayed
  \/ ProcessBlockAcceptance
  \/ AcceptAfterStop

ApiSpec == ApiInit /\ [][ApiNext]_vars

\* ------------------------------------------------------- the sweep threads
\* bounds: candidates announced while the sweep threads are followed,
\* calls of the control interface and rounds of the sweep threads together
MaxSweepFound == 1
MaxSweepCalls == 7

SweepNext ==
  \/ StartSimulation
  \/ StopSimulation
  \/ \E i \in DOMAIN sweepers : PruningRound(i, MaxSweepCalls)
  \/ \E i \in DOMAIN sweepers : SweeperExit(i)
  \/ \E m \in Miners : MinerSnapshot(m)
  \/ \E m \in Miners : Discover(m, MaxSweepFound)
  \/ AcceptBlockDelayed
  \/ ProcessBlockAcceptance
  \/ AcceptAfterStop

SweepSpec == ApiInit /\ [][SweepNext]_vars

\* --------------------------------------- Timers that outlive a reset
\* bound: candidates announced in the run before the reset
MaxResetFound == 1

\* _on_block_found in the first run of the program: the discoveries made
\* before any reset_simulation
DiscoverBeforeReset(m) ==
  /\ calls = 1
  /\ Discover(m, MaxResetFound)

\* start and reset of the control interface around the Timers of the first
\* run: every candidate is discovered before the reset
ResetNext ==
  \/ StartSimulation
  \/ ResetSimulation
  \/ \E i \in DOMAIN sweepers : SweeperExit(i)
  \/ \E m \in Miners : MinerSnapshot(m)
  \/ \E m \in Miners : DiscoverBeforeReset(m)
  \/ AcceptBlockDelayed
  \/ ProcessBlockAcceptance
  \/ AcceptAfterStop

ResetSpec == ApiInit /\ [][ResetNext]_vars

\* --------------------------------- the work fields read one by one
\* bound: candidates announced while the reads of a cycle are followed
MaxTearFound == 2

\* the fields in the order the cycle top of Miner._mining_loop copies them
WorkFields == <<"prev_hash", "height", "data", "difficulty">>

\* Miner._mining_loop, one statement of the top of a cycle: the next of
\* prev_hash = self.prev_hash, height = self.height,
\* data = self.current_data, difficulty = self.difficulty. No lock is
\* held, so the orchestrator may write the work between two of them
ReadWorkField(m) ==
  /\ running
  /\ m \in DOMAIN work
  /\ ~miner_paused
  /\ LET f == WorkFields[fields_read[m] + 1]
     IN snapshot' = [snapshot EXCEPT ![m] = [@ EXCEPT ![f] = work[m][f]]]
  /\ fields_read' = [fields_read EXCEPT ![m] = (@ + 1) % Len(WorkFields)]
  /\ UNCHANGED <<sink_raises, loops, storevars, running, work, nonce_cursor,
                 hash_rate, miner_paused, ctlvars, timers, accepting,
                 countvars, events, ever_canonical, stats, block_times, last>>

\* the search of a cycle whose four copies are made finds a nonce
DiscoverAfterRead(m) ==
  /\ fields_read[m] = 0
  /\ Discover(m, MaxTearFound)

TearNext ==
  \/ \E m \in Miners : ReadWorkField(m)
  \/ \E m \in Miners : DiscoverAfterRead(m)
  \/ AcceptBlockDelayed
  \/ ProcessBlockAcceptance

TearSpec == SimInit /\ [][TearNext]_vars

\* ------------------------------------------------ the nonce cursors
\* bound: candidates announced while the nonce cursors are followed
MaxCursorFound == 1

\* the run started, every loop has drawn its first nonce:
\* nonce = random.randint(0, 2**32 - 1)
CursorInit ==
  /\ RunStarted
  /\ nonce_cursor \in [Miners -> Nonces]
  /\ loops = <<>>

\* Miner._mining_loop, one attempt that misses the threshold:
\* nonce = (nonce + 1) & 0xFFFFFFFF; the loop is skipped while paused
SearchAttempt(m) ==
  /\ running
  /\ ~miner_paused
  /\ m \in DOMAIN nonce_cursor
  /\ nonce_cursor' = [nonce_cursor EXCEPT ![m] = (@ + 1) % NonceSpace]
  /\ UNCHANGED <<sink_raises, loops, storevars, running, work, snapshot,
                 fields_read, hash_rate, miner_paused, ctlvars, timers,
                 accepting, countvars, events, ever_canonical, stats,
                 block_times, last>>

CursorNext ==
  \/ PauseSimulation
  \/ ResumeSimulation
  \/ \E m \in Miners : SearchAttempt(m)
  \/ \E m \in Miners : MinerSnapshot(m)
  \/ \E m \in Miners : Discover(m, MaxCursorFound)
  \/ AcceptBlockDelayed
  \/ ProcessBlockAcceptance

CursorSpec == CursorInit /\ [][CursorNext]_vars

\* --------------------------------- the loop threads of a stopped run
\* bound: candidates announced while the loop threads are followed
MaxStopFound == 1

\* the run started, the loop thread of every miner followed
StopInit ==
  /\ RunStarted
  /\ nonce_cursor = <<>>
  /\ loops = [m \in Miners |-> [is_mining |-> TRUE, candidate |-> NoBlock]]

\* Miner._mining_loop of a followed thread finds a nonce for the work it
\* copied and calls on_block_found, which waits for the lock
FindCandidate(t) ==
  /\ t \in DOMAIN loops
  /\ loops[t].is_mining
  /\ loops[t].candidate = NoBlock
  /\ Cardinality(Candidates) < MaxStopFound
  /\ \E timestamp \in ClockReadings, target \in SimDigests :
       LET block == MinedWith(snapshot[t].height + 1,
                              Str(snapshot[t].prev_hash), timestamp,
                              snapshot[t].data, t, target)
       IN /\ hash_meets_difficulty(target, snapshot[t].difficulty)
          /\ block.hash = target
          /\ Event("block_found", block) \notin events
          /\ loops' = [loops EXCEPT ![t].candidate = block]
  /\ UNCHANGED <<sink_raises, storevars, running, minervars, ctlvars,
                 timers, accepting, countvars, events, ever_canonical,
                 stats, block_times, last>>

\* _on_block_found of a followed thread obtains the lock: it returns if
\* the simulation does not run, and else captures the head, announces the
\* candidate and starts the Timer; the loop then leaves its cycle
EnterCallback(t) ==
  /\ MutexFree
  /\ t \in DOMAIN loops
  /\ loops[t].candidate # NoBlock
  /\ loops' = [loops EXCEPT ![t].candidate = NoBlock]
  /\ IF ~running
     THEN /\ last' = Returned("on_block_found")
          /\ UNCHANGED <<timers, events>>
     ELSE /\ last' = Outcome("on_block_found", Guarded(sink_raises))
          /\ timers' =
               IF Guarded(sink_raises) THEN timers
               ELSE timers \cup {[block |-> loops[t].candidate,
                                  prev_head |-> Tip(main_chain)]}
          /\ events' =
               IF Guarded(sink_raises) THEN events \cup {LogEvent}
               ELSE events \cup {LogEvent,
                                 Event("block_found", loops[t].candidate)}
  /\ UNCHANGED <<sink_raises, storevars, running, minervars, ctlvars,
                 accepting, countvars, ever_canonical, stats, block_times>>

\* `while self.is_mining` of a followed thread finds the flag cleared:
\* the thread leaves _mining_loop
LoopExit(t) ==
  /\ t \in DOMAIN loops
  /\ ~loops[t].is_mining
  /\ loops[t].candidate = NoBlock
  /\ loops' = [k \in DOMAIN loops \ {t} |-> loops[k]]
  /\ UNCHANGED <<sink_raises, storevars, running, minervars, ctlvars,
                 timers, accepting, countvars, events, ever_canonical,
                 stats, block_times, last>>

StopNext ==
  \/ StartSimulation
  \/ StopSimulation
  \/ ResetSimulation
  \/ \E t \in Miners : FindCandidate(t)
  \/ \E t \in Miners : EnterCallback(t)
  \/ \E t \in Miners : LoopExit(t)
  \/ \E m \in Miners : MinerSnapshot(m)

StopSpec == StopInit /\ [][StopNext]_vars

\* --------------------------------------------------------- a raising sink
\* bound: candidates announced while the sink raises
MaxFaultFound == 1

ControlCalls ==
  {"start", "stop", "pause", "resume", "set_miner_rate", "submit_data"}

\* a call of the control interface that returns at its head: nothing is
\* written, nothing is delivered
EarlyReturn(op) ==
  /\ MutexFree
  /\ calls < MaxCalls
  /\ Refused(op)
  /\ calls' = calls + 1
  /\ last' = Returned(op)
  /\ UNCHANGED <<sink_raises, loops, storevars, running, minervars, paused,
                 controller_difficulty, sweepvars, timers, accepting,
                 countvars, events, ever_canonical, stats, block_times>>

\* the state of the module before the first start_simulation, the
\* consumer's callback being one that raises
FaultInit ==
  /\ blocks = <<>>
  /\ main_chain = <<>>
  /\ accepted = <<>>
  /\ difficulty = 0
  /\ hung = FALSE
  /\ resubmitted = 0
  /\ lastOp = [op |-> "init", block |-> NoBlock, valid |-> FALSE,
               ret |-> FALSE, count |-> 0]
  /\ running = FALSE
  /\ paused = FALSE
  /\ work = <<>>
  /\ snapshot = <<>>
  /\ fields_read = <<>>
  /\ nonce_cursor = <<>>
  /\ loops = <<>>
  /\ hash_rate = <<>>
  /\ miner_paused = FALSE
  /\ controller_difficulty = 0
  /\ sweepers = <<>>
  /\ pruning_active = FALSE
  /\ now = 0
  /\ lowered_at = <<>>
  /\ timers = {}
  /\ accepted_count = 0
  /\ stale_count = 0
  /\ ever_canonical = {}
  /\ stats = NoStats
  /\ block_times = <<>>
  /\ last = NoCall
  /\ sink_raises = TRUE
  /\ accepting = {}
  /\ events = {}
  /\ recent_block_times = <<>>
  /\ add_calls = 0
  /\ calls = 0

FaultNext ==
  \/ StartSimulation
  \/ StopSimulation
  \/ PauseSimulation
  \/ ResumeSimulation
  \/ ResetSimulation
  \/ SetMinerRate
  \/ SubmitData
  \/ \E op \in ControlCalls : EarlyReturn(op)
  \/ \E i \in DOMAIN sweepers : PruningRound(i, MaxApiCalls)
  \/ \E i \in DOMAIN sweepers : SweeperExit(i)
  \/ \E m \in Miners : MinerSnapshot(m)
  \/ \E m \in Miners : Discover(m, MaxFaultFound)
  \/ AcceptBlockDelayed
  \/ ProcessBlockAcceptance
  \/ AcceptAfterStop

FaultSpec == FaultInit /\ [][FaultNext]_vars

\* ------------------------------------------------------------- statistics
\* bound: candidates announced while statistics are read
MaxStatsFound == 2

\* get_stats reading the module globals without taking the lock
StatsLockSkipped == TRUE

\* get_stats: `with _simulation_lock:` can be entered
StatsLock == MutexFree

\* the dictionary get_stats returns: the default one when the simulation
\* is not running, else chain, counters, intervals, controller difficulty
\* and pause flag as they are
get_stats ==
  IF ~running
  THEN [called |-> TRUE, running |-> FALSE, blocks |-> <<>>,
        difficulty |-> 0]
  ELSE [called |-> TRUE, running |-> TRUE, blocks |-> main_chain,
        difficulty |-> controller_difficulty,
        recent_block_times |-> recent_block_times,
        stale_count |-> stale_count, accepted_count |-> accepted_count,
        paused |-> paused]

GetStats ==
  /\ StatsLock
  /\ stats' = get_stats
  /\ last' = Returned("get_stats")
  /\ UNCHANGED <<sink_raises, loops, storevars, running, minervars, ctlvars,
                 timers, accepting, countvars, events, ever_canonical,
                 block_times>>

StatsNext ==
  \/ \E m \in Miners : MinerSnapshot(m)
  \/ \E m \in Miners : Discover(m, MaxStatsFound)
  \/ AcceptBlockDelayed
  \/ ProcessBlockAcceptance
  \/ AcceptAfterStop
  \/ StopSimulation
  \/ GetStats

StatsSpec == SimInit /\ [][StatsNext]_vars

\* ------------------------------------------- difficulty controller alone
\* the intervals recorded, in seconds
Samples == {4, 16}

\* a DifficultyController as its constructor leaves it, nothing started
ControllerInit ==
  /\ blocks = <<>>
  /\ main_chain = <<>>
  /\ accepted = <<>>
  /\ difficulty = 0
  /\ hung = FALSE
  /\ resubmitted = 0
  /\ lastOp = [op |-> "init", block |-> NoBlock, valid |-> FALSE,
               ret |-> FALSE, count |-> 0]
  /\ running = FALSE
  /\ paused = FALSE
  /\ work = <<>>
  /\ snapshot = <<>>
  /\ fields_read = <<>>
  /\ nonce_cursor = <<>>
  /\ loops = <<>>
  /\ hash_rate = <<>>
  /\ miner_paused = FALSE
  /\ controller_difficulty = DEFAULT_DIFFICULTY
  /\ sweepers = <<>>
  /\ pruning_active = FALSE
  /\ now = 0
  /\ lowered_at = <<>>
  /\ timers = {}
  /\ accepted_count = 0
  /\ stale_count = 0
  /\ ever_canonical = {}
  /\ accepting = {}
  /\ events = {}
  /\ recent_block_times = <<>>
  /\ add_calls = 0
  /\ calls = 0
  /\ stats = NoStats
  /\ block_times = <<>>
  /\ last = NoCall
  /\ sink_raises = FALSE

\* controller.record_block_time(block_time)
RecordBlockTime ==
  /\ \E block_time \in Samples :
       block_times' = record_block_time(block_times, block_time)
  /\ last' = Returned("record_block_time")
  /\ UNCHANGED <<sink_raises, loops, storevars, running, minervars, ctlvars,
                 timers, accepting, countvars, events, ever_canonical, stats>>

\* controller.adjust_difficulty(controller.block_times)
AdjustDifficulty ==
  /\ controller_difficulty' =
       adjust_difficulty(controller_difficulty, TARGET_BLOCK_TIME,
                         block_times)
  /\ last' = Returned("adjust_difficulty")
  /\ UNCHANGED <<sink_raises, loops, storevars, running, minervars, paused,
                 sweepvars, calls, timers, accepting, countvars, events,
                 ever_canonical, stats, block_times>>

ControllerNext ==
  \/ RecordBlockTime
  \/ AdjustDifficulty

ControllerSpec == ControllerInit /\ [][ControllerNext]_vars

\* ------------------------------------------------------ chain store claims
TipHeight == Tip(main_chain).height
PoolSize == Cardinality(DOMAIN blocks)
InPool(b) == Key(b) \in DOMAIN blocks /\ blocks[Key(b)] = b
AddedValid == lastOp.op = "add" /\ lastOp.valid

\* C2: for every index i > 0 of the canonical chain, chain[i].prev_hash is
\* the hash of chain[i-1] and chain[i].height is chain[i-1].height + 1.
C2_ChainLinked ==
  \A i \in 2..Len(main_chain) :
    /\ main_chain[i].prev_hash = Str(main_chain[i - 1].hash)
    /\ main_chain[i].height = main_chain[i - 1].height + 1

\* C3: a pool block has accepted = true if and only if it is on the
\* canonical chain.
C3_AcceptedIffCanonical ==
  \A b \in Range(blocks) : accepted[b] <=> b \in ChainSet(main_chain)

\* C4 as stated: add of a valid block whose height does not exceed the tip
\* height leaves the canonical chain as it is, returns false and keeps the
\* block in the pool as a non-canonical fork with accepted = false.
C4_EqualHeightIsFork ==
  [][(lastOp'.op = "add" /\ lastOp'.valid
      /\ lastOp'.block.height <= TipHeight)
     => /\ main_chain' = main_chain
        /\ lastOp'.ret = FALSE
        /\ Key(lastOp'.block) \in DOMAIN blocks'
        /\ blocks'[Key(lastOp'.block)] = lastOp'.block
        /\ accepted'[lastOp'.block] = FALSE
        /\ lastOp'.block \notin ChainSet(main_chain')]_vars

\* C4 amended: add of a valid block whose height does not exceed the tip
\* height leaves the canonical chain as it is and returns false; a block
\* that is not itself on the canonical chain is kept in the pool as a
\* non-canonical fork with accepted = false.
C4_EqualHeightKeepsChain ==
  [][(lastOp'.op = "add" /\ lastOp'.valid
      /\ lastOp'.block.height <= TipHeight)
     => /\ main_chain' = main_chain
        /\ lastOp'.ret = FALSE
        /\ lastOp'.block \notin ChainSet(main_chain)
           => /\ Key(lastOp'.block) \in DOMAIN blocks'
              /\ blocks'[Key(lastOp'.block)] = lastOp'.block
              /\ accepted'[lastOp'.block] = FALSE
              /\ lastOp'.block \notin ChainSet(main_chain')]_vars

\* a fork block of the tip's height has been added next to a chain of at
\* least two blocks
C4_Witness ==
  /\ AddedValid /\ ~lastOp.ret /\ ~hung
  /\ Len(main_chain) >= 2
  /\ lastOp.block.height = TipHeight
  /\ lastOp.block \notin ChainSet(main_chain)
  /\ InPool(lastOp.block)

\* C5: add of a block that passes validation and whose parent is the
\* canonical tip returns true, makes the block the new tip, lengthens the
\* canonical chain by exactly 1 and sets the block's accepted flag.
C5_ExtendTip ==
  [][(lastOp'.op = "add" /\ lastOp'.valid
      /\ lastOp'.block.prev_hash = Key(Tip(main_chain)))
     => /\ lastOp'.ret = TRUE
        /\ Tip(main_chain') = lastOp'.block
        /\ Len(main_chain') = Len(main_chain) + 1
        /\ accepted'[lastOp'.block] = TRUE]_vars

\* C6: if validate rejects a block, add returns false and leaves the pool,
\* the canonical chain, every accepted flag and the difficulty as they were.
C6_RejectedChangesNothing ==
  [][(lastOp'.op = "add" /\ ~lastOp'.valid)
     => /\ lastOp'.ret = FALSE
        /\ blocks' = blocks
        /\ main_chain' = main_chain
        /\ accepted' = accepted
        /\ difficulty' = difficulty
        /\ hung' = hung]_vars

\* a block has been rejected by a store that holds a fork
C6_Witness ==
  /\ lastOp.op = "add" /\ ~lastOp.valid
  /\ PoolSize >= 3
  /\ \E b \in Range(blocks) : b \notin ChainSet(main_chain)

\* the conditions of validation, one by one
DigestMatches(b) ==
  b.hash = compute_block_hash(b.prev_hash, b.height, b.timestamp, b.data,
                              b.nonce, b.miner_id)
MeetsStoreDifficulty(b) == b.hash < BASE_THRESHOLD \div Pow2(difficulty)
WithinFutureWindow(b, t) == b.timestamp - t <= FUTURE_WINDOW
ParentKnown(b) == b.prev_hash \in DOMAIN blocks
HeightFollowsParent(b) == b.height - 1 = blocks[b.prev_hash].height
NotBeforeParent(b) == blocks[b.prev_hash].timestamp <= b.timestamp

\* the blocks a caller can hand to the store in the current state
Submittable == CandidateBlocks \cup Live(blocks, main_chain)

\* C7: validate(block) is true if and only if the recomputed digest equals
\* block.hash, the digest meets the store's difficulty, the timestamp is
\* not beyond the future window and, for a block of height > 0, prev_hash
\* names a pool block, height = parent height + 1 and timestamp >= the
\* parent's timestamp.
C7_ValidateIff ==
  \A b \in Submittable, t \in ClockReadings :
    validate_block(b, t)
      <=> /\ DigestMatches(b)
          /\ MeetsStoreDifficulty(b)
          /\ WithinFutureWindow(b, t)
          /\ b.height > 0 => /\ ParentKnown(b)
                             /\ HeightFollowsParent(b)
                             /\ NotBeforeParent(b)

\* a block has been added and some submittable block now fails on the
\* parent's timestamp alone, another on its height alone, another on the
\* future window alone
C7_Witness ==
  /\ AddedValid
  /\ \E b \in Submittable, t \in ClockReadings :
       /\ ~validate_block(b, t) /\ b.height > 0 /\ ParentKnown(b)
       /\ HeightFollowsParent(b) /\ ~NotBeforeParent(b)
  /\ \E b \in Submittable, t \in ClockReadings :
       /\ ~validate_block(b, t) /\ b.height > 0 /\ ParentKnown(b)
       /\ ~HeightFollowsParent(b) /\ NotBeforeParent(b)
  /\ \E b \in Submittable, t \in ClockReadings :
       /\ ~validate_block(b, t) /\ DigestMatches(b)
       /\ MeetsStoreDifficulty(b) /\ ~WithinFutureWindow(b, t)

\* C8 as stated: every pool block of height > 0 has a prev_hash that names
\* a block of the pool.
C8_NoOrphans ==
  \A b \in Range(blocks) : b.height > 0 => b.prev_hash \in DOMAIN blocks

\* C8 amended: add never leaves a pool block of height > 0 without its
\* parent: if every such block had its parent in the pool before an add, so
\* it has after it (only prune takes parents away).
C8_AddKeepsParents ==
  [][(lastOp'.op = "add" /\ C8_NoOrphans) => C8_NoOrphans']_vars

\* a block of height 2 has been added to a pool in which every block has
\* its parent
C8_Witness ==
  /\ AddedValid /\ lastOp.block.height = 2 /\ InPool(lastOp.block)
  /\ C8_NoOrphans

\* C9: looking up the digest of any block of the canonical chain in the
\* pool returns that very block.
C9_ChainInPool ==
  \A i \in 1..Len(main_chain) : InPool(main_chain[i])

\* C10: prune(k) removes no block that is on the canonical chain, and the
\* canonical chain is the same after prune as before.
C10_PruneSparesChain ==
  [][lastOp'.op = "prune"
     => /\ main_chain' = main_chain
        /\ \A k \in DOMAIN blocks :
             blocks[k] \in ChainSet(main_chain)
               => k \in DOMAIN blocks' /\ blocks'[k] = blocks[k]
        /\ \A b \in ChainSet(main_chain) : accepted'[b] = accepted[b]]_vars

\* a prune has removed a block while canonical blocks lay below the
\* pruning threshold
C10_Witness ==
  /\ lastOp.op = "prune" /\ lastOp.count >= 1
  /\ Len(main_chain) >= 3
  /\ \A i \in 1..Len(main_chain) : InPool(main_chain[i])

\* ------------------------------------------------------ orchestrator claims
\* C1: in the orchestrated simulation no two distinct blocks of the same
\* height have both been on the canonical chain, at the same time or at
\* different times of the run.
C1_OneCanonicalPerHeight ==
  \A a \in ever_canonical : \A b \in ever_canonical :
    a.height = b.height => a = b

\* ------------------------------------------------------------ prune claims
\* the pool keys prune(k) has to remove: blocks that are not on the
\* canonical chain and lie more than k below the tip
TooFarBehind(k) ==
  {key \in DOMAIN blocks :
     /\ blocks[key] \notin ChainSet(main_chain)
     /\ blocks[key].height < TipHeight - k}

C13_GenesisIsRoot == main_chain[1] = GenesisBlock

\* C14: whenever the global mutex is free, accepted_count + stale_count is
\* the number of acceptance steps that called add_block since the last
\* reset, and the step that ends an acceptance raises exactly one of the
\* two counters by exactly 1.
C14_CountersMatchAdds ==
  [][/\ MutexFree' => accepted_count' + stale_count' = add_calls'
     /\ (~MutexFree /\ MutexFree') =>
          \/ /\ accepted_count' = accepted_count + 1
             /\ stale_count' = stale_count
          \/ /\ accepted_count' = accepted_count
             /\ stale_count' = stale_count + 1]_vars

C14_Witness ==
  /\ MutexFree
  /\ accepted_count >= 1
  /\ stale_count >= 1
  /\ add_calls = accepted_count + stale_count

\* C17: an acceptance step whose timer fires while the simulation is not
\* running calls no add_block and leaves the pool, the canonical chain,
\* both counters, the difficulty and every miner's work unchanged, and
\* delivers no event.
C17_StoppedAcceptIsNoOp ==
  [][(~running /\ timers' # timers) =>
       /\ timers' \subseteq timers
       /\ UNCHANGED <<blocks, main_chain, accepted, difficulty, work,
                      accepted_count, stale_count, add_calls, events>>]_vars

\* the candidates the sink has heard of, and those it has heard a
\* decision about
Announced == {e.block : e \in {x \in events : x.kind = "block_found"}}
Decided ==
  {e.block : e \in {x \in events : x.kind \in {"block_accepted",
                                                 "block_stale"}}}

\* a candidate was announced, its timer fired after the stop and nothing
\* was decided
C17_Witness ==
  /\ ~running
  /\ timers = {}
  /\ \E b \in Announced : b # GenesisBlock /\ b \notin Decided

\* the decision events a step delivers
NewDecisions ==
  {e \in events' \ events : e.kind \in {"block_accepted", "block_stale"}}

\* C18: a decision event for a candidate follows its block_found event;
\* the acceptance step of a candidate delivers exactly one decision
\* event, block_accepted if add_block returned true and block_stale if it
\* returned false; no candidate gets both decisions.
C18_OneDecisionPerCandidate ==
  [][/\ \A e \in NewDecisions : e.block \in Announced
     /\ \A a \in accepting :
          MutexFree' =>
            NewDecisions =
              {Event(IF a.added THEN "block_accepted" ELSE "block_stale",
                     a.block)}
     /\ MutexFree => NewDecisions = {}
     /\ \A b \in Announced' :
          ~(/\ Event("block_accepted", b) \in events'
            /\ Event("block_stale", b) \in events')]_vars

\* one candidate accepted, one that failed validation decided stale
C18_Witness ==
  /\ \E b \in Announced : Event("block_accepted", b) \in events
  /\ \E b \in Announced :
       /\ Event("block_stale", b) \in events
       /\ b.prev_hash \notin DOMAIN blocks

\* --------------------------------------------------- control interface claims
\* the kinds of event the sink is specified to receive
EventKinds ==
  {"simulation_start", "simulation_stop", "simulation_pause",
   "simulation_resume", "block_found", "block_accepted", "block_stale",
   "difficulty_update", "log"}

\* C19: every event delivered to the event sink has one of the nine
\* specified kinds
C19_ClosedEventKinds == \A e \in events : e.kind \in EventKinds

\* C20: whenever the global mutex is free while the simulation runs, the
\* controller's difficulty, the store's difficulty and the difficulty
\* held by every miner are equal
C20_DifficultyInStep ==
  (MutexFree /\ running) =>
     /\ controller_difficulty = difficulty
     /\ \A m \in DOMAIN work : work[m].difficulty = difficulty

\* the stillness rule has lowered the difficulty below every bucket of
\* the hash-rate adjustment and below every config difficulty
C20_Witness ==
  /\ MutexFree /\ running
  /\ difficulty = 1
  /\ Event("difficulty_update", NoBlock) \in events

\* C15: acceptance steps never interleave (a step starts only while no
\* step is in progress), and a get_stats snapshot of a running simulation
\* shows all or none of the effects of every acceptance step: its
\* counters account for every add_block call made so far, its interval
\* list has one entry per accepted block, and its chain is the one these
\* counters belong to
C15_AcceptanceAtomic ==
  [][/\ (accepting' # accepting /\ accepting' # {}) =>
          accepting = {} /\ Cardinality(accepting') = 1
     /\ (stats' # stats /\ stats'.running) =>
          /\ stats'.accepted_count + stats'.stale_count = add_calls
          /\ Len(stats'.recent_block_times) = stats'.accepted_count
          /\ stats'.blocks = main_chain]_vars

\* a snapshot taken after two acceptance steps, one that extended the
\* chain and one whose block was stale
C15_Witness ==
  /\ stats.called /\ stats.running
  /\ Len(stats.blocks) = 2
  /\ stats.accepted_count = 1
  /\ stats.stale_count = 1
  /\ timers = {}

\* C16: the global mutex is always released again, so every thread that
\* requests it (a lifecycle call, get_stats, a discovery callback, an
\* acceptance step, the sweep) eventually obtains it
C16_MutexReleased == ~MutexFree ~> MutexFree

\* ------------------------------------------------ difficulty controller claims
\* the decision the sample-window rule prescribes for a window: up by 1
\* below 0.9 * target, down by 1 above 1.1 * target, clipped to the range
SampleWindowDecision(current, target_block_time, times) ==
  LET total == SumSeq(times)
      n == Len(times)
  IN IF 10 * total < 9 * target_block_time * n
     THEN Min(current + 1, MAX_DIFFICULTY)
     ELSE IF 10 * total > 11 * target_block_time * n
          THEN Max(current - 1, MIN_DIFFICULTY)
          ELSE current

\* C26: for every non-empty window the sample-window decision raises the
\* difficulty by 1 below 0.9 * target, lowers it by 1 above 1.1 * target
\* and holds it in between, clipped at the ends of the range
C26_SampleWindowDecision ==
  [][(last'.op = "adjust_difficulty" /\ block_times # <<>>) =>
       controller_difficulty' =
         SampleWindowDecision(controller_difficulty, TARGET_BLOCK_TIME,
                              block_times)]_vars

\* C27: after every adjustment decision, whether or not it changed the
\* difficulty, the controller's window is empty
C27_WindowClearedAfterDecision ==
  [][last'.op = "adjust_difficulty" => block_times' = <<>>]_vars

\* C28: every acceptance step in which add returned true, whatever the
\* age of the controller, leaves the difficulty the sample-window decision
\* gives for the window with the new interval, on controller, store and
\* miners alike, and announces a change by a difficulty_update event
C28_ReevaluatedAfterAccept ==
  [][(MutexFree' /\ \E a \in accepting : a.added) =>
       /\ controller_difficulty' =
            adjust_difficulty(controller_difficulty, TARGET_BLOCK_TIME,
                              block_times')
       /\ difficulty' = controller_difficulty'
       /\ \A m \in DOMAIN work' : work'[m].difficulty = controller_difficulty'
       /\ controller_difficulty' # controller_difficulty =>
            Event("difficulty_update", NoBlock) \in events']_vars

\* C29: the interval an accepted block adds to the controller's window
\* and to the recent-interval list is its timestamp minus the timestamp
\* of its parent on the canonical chain, the head captured at discovery
\* being that parent; the window never exceeds its capacity
C29_IntervalFromParent ==
  [][\A a \in accepting :
       (a.added /\ MutexFree' /\ Len(main_chain) >= 2) =>
         LET parent == main_chain[Len(main_chain) - 1]
             interval == a.block.timestamp - parent.timestamp
         IN /\ a.prev_head = parent
            /\ block_times'[Len(block_times')] = interval
            /\ recent_block_times'[Len(recent_block_times')] = interval
            /\ Len(block_times') <= WINDOW]_vars

\* what C30 says of a round of sweep thread i: the other threads' timers
\* are untouched; a chain longer than at the thread's last look only
\* restarts its timer; a chain that is not, with the timer more than the
\* timeout old, lowers a difficulty above 1 by exactly 1 on controller,
\* store and miners, restarts the timer and comes a full timeout or more
\* after the last such decrease; every other round leaves difficulty and
\* timer alone
SweepRoundAsClaimed(i) ==
  LET s == sweepers[i]
      grown == Len(main_chain) > s.last_block_height
      still == ~grown /\ now' - s.time_at_last_block > STILLNESS_TIMEOUT
      lowers == still /\ controller_difficulty > 1
      new_difficulty == controller_difficulty - 1
  IN /\ \A k \in DOMAIN sweepers : k # i => sweepers'[k] = sweepers[k]
     /\ lowers =>
          /\ controller_difficulty' = new_difficulty
          /\ difficulty' = difficulty - 1
          /\ \A m \in DOMAIN work :
               /\ work'[m].difficulty = new_difficulty
               /\ work[m].difficulty = new_difficulty + 1
          /\ sweepers'[i].time_at_last_block = now'
          /\ (lowered_at = <<>> \/
              now' - lowered_at[1] >= STILLNESS_TIMEOUT)
     /\ ~lowers =>
          /\ controller_difficulty' = controller_difficulty
          /\ difficulty' = difficulty
          /\ work' = work
          /\ sweepers'[i].time_at_last_block =
               IF grown THEN now' ELSE s.time_at_last_block

\* C30: every round of a sweep thread is as C30 says: a stillness
\* decrease is by exactly 1, restarts the timer and is a full timeout
\* after the last one; at the floor nothing changes; a new block only
\* restarts the timer
C30_StillnessDecrease ==
  [][(last'.op = "sweep" /\ calls' = calls + 1) =>
       \E i \in DOMAIN sweepers : SweepRoundAsClaimed(i)]_vars

C22_SinkFailureContained ==
  [][sink_raises =>
       /\ last'.op = "on_block_found" => ~last'.raised
       /\ Candidates' # Candidates => timers' # timers
       /\ (MutexFree /\ ~MutexFree') => add_calls' = add_calls + 1
       /\ (~MutexFree /\ MutexFree') =>
            /\ accepted_count' + stale_count' =
                 accepted_count + stale_count + 1
            /\ \A a \in accepting :
                 a.added => work' = BroadcastWork(main_chain, work,
                                                  difficulty)
       /\ (last'.op = "sweep" /\ calls' = calls + 1) =>
            /\ ~last'.raised
            /\ Len(sweepers') = Len(sweepers)]_vars

\* the sink raises, and a candidate has been announced, added, counted
\* and announced as accepted; a sweep round has run since
C22_Witness ==
  /\ sink_raises
  /\ accepted_count > 0
  /\ \E e \in events : e.kind = "block_accepted"
  /\ last.op = "sweep"

\* C23: no call of the control interface ends with an exception of the
\* sink reaching its caller
C23_NoSinkErrorReachesCaller == ~last.raised

\* C24: the simulation never runs with an empty roster of miners
C24_NoRunningEmptyRoster == running => DOMAIN work # {}

\* the misuse C25 names: the call finds the flags as it must not
Misused(op) ==
  CASE op = "stop" -> ~running
    [] op = "start" -> running
    [] op = "pause" -> ~running \/ paused
    [] op = "resume" -> ~running \/ ~paused

\* C25: stop when not running, start while running, pause when not
\* running or already paused and resume when not paused change neither
\* chain, miners, counters, difficulty nor the running and paused flags,
\* deliver no event and raise nothing
C25_MisuseIsNoOp ==
  [][\A op \in {"stop", "start", "pause", "resume"} :
       (calls' = calls + 1 /\ last'.op = op /\ Misused(op)) =>
         /\ ~last'.raised
         /\ UNCHANGED <<storevars, running, paused, minervars,
                        controller_difficulty, countvars, block_times,
                        timers, events, sweepvars>>]_vars

\* stop has been called on a simulation that was stopped before, and
\* returned
C25_Witness ==
  /\ last = Returned("stop")
  /\ ~running
  /\ Event("simulation_stop", NoBlock) \in events
  /\ calls > 2

\* C37: every call to add terminates: the backward walk of add_block through
\* the prev_hash links of the pool ends, at a height-0 block or at a missing
\* ancestor, for every block that passed validation (no call is left hanging).
C37_AddTerminates == ~hung

\* C38: at most one sweep worker performs sweeps: a sweep round is only
\* ever made by the thread that the latest start_simulation created (the
\* last of the live threads), never by the thread of an earlier run that
\* stop_simulation or reset_simulation told to stop
C38_OneSweepWorker ==
  [][\A i \in DOMAIN sweepers :
       (/\ last'.op = "sweep"
        /\ calls' = calls + 1
        /\ Len(sweepers') = Len(sweepers)
        /\ sweepers'[i] # sweepers[i]) => i = Len(sweepers)]_vars

\* C39: the orchestrator's paused flag is true only if the simulation is
\* running and the miners of the current run are paused; after stop or
\* reset the simulation is neither running nor paused
C39_PausedOnlyWhileRunning ==
  paused => (running /\ miner_paused)

\* C40: a candidate discovered before a reset is never applied to the
\* session started after it: in the run that follows start, reset, start,
\* with every candidate discovered before the reset, the pool and the
\* canonical chain hold the genesis block only and both counters are 0,
\* whichever Timers of the first run fire
C40_OldTimersIgnored ==
  (calls = 3 /\ running /\ MutexFree) =>
     /\ main_chain = <<GenesisBlock>>
     /\ blocks = [k \in {Key(GenesisBlock)} |-> GenesisBlock]
     /\ accepted_count = 0
     /\ stale_count = 0

\* C36: no reorganisation in the orchestrated simulation: every step leaves
\* the canonical chain as it was or appends exactly one block whose parent
\* is the previous tip, so every earlier canonical chain is a prefix of
\* every later one and no accepted block is un-accepted later
C36_NoReorganisation ==
  [][\/ main_chain' = main_chain
     \/ /\ Len(main_chain') = Len(main_chain) + 1
        /\ SubSeq(main_chain', 1, Len(main_chain)) = main_chain
        /\ Tip(main_chain').prev_hash = Key(Tip(main_chain))]_vars

\* C31: whenever the global mutex is free during a run, in particular after
\* every acceptance step, accepted or stale, the work of every miner of the
\* roster names the canonical tip: its head digest and its head height
C31_WorkNamesTip ==
  (running /\ MutexFree) =>
     \A m \in DOMAIN work :
        /\ work[m].prev_hash = Tip(main_chain).hash
        /\ work[m].height = Tip(main_chain).height

\* a run in which one candidate was accepted and another was decided
\* stale, and the first miner's work names the tip of height 1
C31_Witness ==
  /\ running /\ MutexFree
  /\ accepted_count > 0 /\ stale_count > 0
  /\ Len(main_chain) > 1
  /\ work["miner_1"].height = Tip(main_chain).height

\* C32: mining and validation use the same difficulty predicate: when the
\* acceptance step of a candidate runs while the canonical tip is still
\* the head the candidate was mined on (its prev_hash and height minus 1)
\* and the candidate's digest meets the store's difficulty, add_block
\* accepts it and it is the new tip
C32_MinedOnTipIsAccepted ==
  [][\A a \in accepting' :
       (/\ accepting = {}
        /\ a.block.prev_hash = Key(Tip(main_chain))
        /\ a.block.height = Tip(main_chain).height + 1
        /\ a.block.timestamp >= Tip(main_chain).timestamp
        /\ hash_meets_difficulty(a.block.hash, difficulty))
       => (~hung' /\ a.added /\ Tip(main_chain') = a.block)]_vars

\* the heads a miner can hold after whole writes only: the one of
\* Miner.__init__ and digest and height of every block that has been the
\* canonical tip
HeadsHandedOut ==
  {[prev_hash |-> InitialWork(Payload, DEFAULT_DIFFICULTY).prev_hash,
    height |-> InitialWork(Payload, DEFAULT_DIFFICULTY).height]}
  \cup {[prev_hash |-> b.hash, height |-> b.height] : b \in ever_canonical}

\* C33: the work a search cycle uses is the snapshot of a single set_work
\* call: once the cycle has copied its four fields, head digest and head
\* height belong to one head that was handed out, and so do prev_hash and
\* height of every candidate reported
C33_SnapshotOfOneSetWork ==
  /\ \A m \in DOMAIN snapshot :
       fields_read[m] = 0 =>
         [prev_hash |-> snapshot[m].prev_hash,
          height |-> snapshot[m].height] \in HeadsHandedOut
  /\ \A c \in Candidates :
       \E h \in HeadsHandedOut :
          c.prev_hash = Str(h.prev_hash) /\ c.height = h.height + 1

\* C34: a resume of the paused simulation leaves every miner's nonce
\* cursor as the pause left it: the first nonce tried after the resume is
\* the one the loop would have tried next
C34_ResumeKeepsCursor ==
  [][(running /\ paused /\ running' /\ ~paused') =>
       nonce_cursor' = nonce_cursor]_vars

\* C35: a search loop whose run was stopped (or reset) reports no candidate
\* afterwards, also when its discovery callback was waiting for the global
\* mutex at the stop: the candidate such a thread holds is never announced
C35_StoppedLoopReportsNothing ==
  [][\A t \in DOMAIN loops :
       (~loops[t].is_mining /\ loops[t].candidate # NoBlock) =>
          Event("block_found", loops[t].candidate) \notin events']_vars

====
